---- MODULE Spec2Model ----
(***************************************************************************)
(* Model of the Aave V2 exchange calculator (aave_exchange_calculator.py   *)
(* and token_config.py).                                                   *)
(*                                                                         *)
(* Python integers are unbounded and the amounts of this program have 28   *)
(* and more decimal digits, so a Python int is modelled as a record        *)
(* [neg, mag] whose magnitude is a sequence of decimal digits (most        *)
(* significant first, no leading zeros, zero = <<0>>), and a Decimal as    *)
(* [sign, coef, exp] with value (-1)^sign * coef * 10^exp, as in CPython's *)
(* decimal module.  The Decimal operations are the ones of the default     *)
(* context: 28 significant digits, ROUND_HALF_EVEN.                        *)
(***************************************************************************)
EXTENDS Integers, Sequences, FiniteSets, TLC

(***************************************************************************)
(* Unbounded naturals as digit sequences.                                  *)
(***************************************************************************)
Zeros(k) == [i \in 1..k |-> 0]

Nines(k) == [i \in 1..k |-> 9]

\* without leading zeros
Strip(a) ==
    IF \A i \in 1..Len(a) : a[i] = 0 THEN <<0>>
    ELSE SubSeq(a, CHOOSE i \in 1..Len(a) :
                      a[i] # 0 /\ \A j \in 1..(i - 1) : a[j] = 0, Len(a))

\* a * 10^k
Shl(a, k) == IF a = <<0>> THEN a ELSE a \o Zeros(k)

\* floor(a / 10^k)
Shr(a, k) == IF k >= Len(a) THEN <<0>> ELSE SubSeq(a, 1, Len(a) - k)

\* -1, 0 or 1 as a < b, a = b, a > b
Cmp(a, b) ==
    IF Len(a) < Len(b) THEN -1
    ELSE IF Len(a) > Len(b) THEN 1
    ELSE IF a = b THEN 0
    ELSE LET i == CHOOSE k \in 1..Len(a) :
                      a[k] # b[k] /\ \A j \in 1..(k - 1) : a[j] = b[j]
         IN  IF a[i] < b[i] THEN -1 ELSE 1

\* digit of a at decimal position i (0 = units)
DigitAt(a, i) == IF i < Len(a) THEN a[Len(a) - i] ELSE 0

\* The carry chains below run over the positions lo..hi by halving the
\* range, lower half first, so that the evaluation depth stays logarithmic
\* (the test on L makes the lower half's result the first thing evaluated).
RECURSIVE AddR(_, _, _, _, _)
AddR(a, b, lo, hi, c) ==
    IF lo = hi
    THEN LET s == DigitAt(a, lo) + DigitAt(b, lo) + c
         IN  [d |-> <<s % 10>>, c |-> s \div 10]
    ELSE LET mid == (lo + hi) \div 2
             L   == AddR(a, b, lo, mid, c)
             H   == AddR(a, b, mid + 1, hi, L.c)
         IN  IF L.c < 0 THEN L ELSE [d |-> H.d \o L.d, c |-> H.c]

Add(a, b) ==
    LET n == IF Len(a) > Len(b) THEN Len(a) ELSE Len(b)
        r == AddR(a, b, 0, n - 1, 0)
    IN  IF r.c = 0 THEN Strip(r.d) ELSE <<r.c>> \o r.d

RECURSIVE SubR(_, _, _, _, _)
SubR(a, b, lo, hi, c) ==
    IF lo = hi
    THEN LET s == DigitAt(a, lo) - DigitAt(b, lo) - c
         IN  [d |-> <<IF s < 0 THEN s + 10 ELSE s>>, c |-> IF s < 0 THEN 1 ELSE 0]
    ELSE LET mid == (lo + hi) \div 2
             L   == SubR(a, b, lo, mid, c)
             H   == SubR(a, b, mid + 1, hi, L.c)
         IN  IF L.c < 0 THEN L ELSE [d |-> H.d \o L.d, c |-> H.c]

\* a - b, for a >= b
Sub(a, b) == Strip(SubR(a, b, 0, Len(a) - 1, 0).d)

RECURSIVE MulSmallR(_, _, _, _, _)
MulSmallR(a, k, lo, hi, c) ==
    IF lo = hi
    THEN LET s == DigitAt(a, lo) * k + c
         IN  [d |-> <<s % 10>>, c |-> s \div 10]
    ELSE LET mid == (lo + hi) \div 2
             L   == MulSmallR(a, k, lo, mid, c)
             H   == MulSmallR(a, k, mid + 1, hi, L.c)
         IN  IF L.c < 0 THEN L ELSE [d |-> H.d \o L.d, c |-> H.c]

\* a * k, for a digit k
MulSmall(a, k) ==
    LET r == MulSmallR(a, k, 0, Len(a) - 1, 0)
    IN  IF r.c = 0 THEN Strip(r.d) ELSE <<r.c>> \o r.d

RECURSIVE MulR(_, _, _, _)
\* a * b[lo..hi]
MulR(a, b, lo, hi) ==
    IF lo = hi THEN MulSmall(a, b[lo])
    ELSE LET mid == (lo + hi) \div 2
         IN  Add(Shl(MulR(a, b, lo, mid), hi - mid), MulR(a, b, mid + 1, hi))

Mul(a, b) == MulR(a, b, 1, Len(b))

RECURSIVE QDigit(_, _)
\* one step of the long division: r = q * b + r', q a digit
QDigit(r, b) == IF Cmp(r, b) < 0 THEN [q |-> 0, r |-> r]
                ELSE LET n == QDigit(Sub(r, b), b)
                     IN  [q |-> n.q + 1, r |-> n.r]

\* the state of the long division after the step s
DivStep(st, s) == [q |-> Append(st.q, s.q), r |-> s.r]

RECURSIVE DivR(_, _, _, _, _)
\* long division over the digits a[lo..hi], from the state st = [q, r]
DivR(a, b, lo, hi, st) ==
    IF lo = hi
    THEN DivStep(st, QDigit(Strip(Append(st.r, a[lo])), b))
    ELSE LET mid == (lo + hi) \div 2
             L   == DivR(a, b, lo, mid, st)
         IN  IF Len(L.q) < 0 THEN L ELSE DivR(a, b, mid + 1, hi, L)

\* divmod(a, b) for b > 0: [q |-> a // b, r |-> a % b]
DivResult(x) == [q |-> Strip(x.q), r |-> x.r]

DivMod(a, b) == DivResult(DivR(a, b, 1, Len(a), [q |-> <<>>, r |-> <<0>>]))

IsOdd(a) == a[Len(a)] % 2 = 1

RECURSIVE NatDigits(_)
NatDigits(n) == IF n < 10 THEN <<n>> ELSE Append(NatDigits(n \div 10), n % 10)

(***************************************************************************)
(* Python's Decimal under the default context.                             *)
(***************************************************************************)
\* decimal.getcontext().prec
PREC == 28

Dec(sign, coef, exp) == [sign |-> sign, coef |-> coef, exp |-> exp]

DecIsZero(x) == x.coef = <<0>>

\* mutant of RoundHalfEven: ROUND_DOWN, the digits cut are dropped
RoundDown(coef, keep) == FALSE

\* Decimal._round_half_even: TRUE when the coefficient, cut to its first
\* `keep` digits, is to be incremented (0 <= keep < Len(coef))
RoundHalfEven(coef, keep) ==
    LET d         == coef[keep + 1]
        restZero  == \A i \in (keep + 2)..Len(coef) : coef[i] = 0
        exactHalf == d = 5 /\ restZero
    IN  IF exactHalf /\ (keep = 0 \/ coef[keep] % 2 = 0) THEN FALSE ELSE d >= 5

\* mutant of Fix: a fixed-width coefficient that wraps around, keeping the
\* low PREC digits
FixWraps(x) ==
    IF Len(x.coef) <= PREC THEN x
    ELSE Dec(x.sign, Strip(SubSeq(x.coef, Len(x.coef) - PREC + 1, Len(x.coef))), x.exp)

\* Decimal._fix: round to the context's precision
\* the coefficient incremented by the rounding: 99..9 + 1 has one digit too
\* many and gives up its last zero to the exponent
FixCarry(sign, up, expMin) ==
    IF Len(up) > PREC THEN Dec(sign, SubSeq(up, 1, PREC), expMin + 1)
    ELSE Dec(sign, up, expMin)

Fix(x) ==
    IF DecIsZero(x) \/ Len(x.coef) <= PREC THEN x
    ELSE IF RoundHalfEven(x.coef, PREC)
    THEN FixCarry(x.sign, Add(SubSeq(x.coef, 1, PREC), <<1>>),
                  Len(x.coef) + x.exp - PREC)
    ELSE Dec(x.sign, SubSeq(x.coef, 1, PREC), Len(x.coef) + x.exp - PREC)

\* Decimal.__mul__
DecMul(x, y) ==
    Fix(Dec(IF x.sign = y.sign THEN 0 ELSE 1,
            IF DecIsZero(x) \/ DecIsZero(y) THEN <<0>> ELSE Mul(x.coef, y.coef),
            x.exp + y.exp))

\* the exact-quotient loop of Decimal.__truediv__: trailing zeros of the
\* coefficient move into the exponent, up to the ideal exponent
DropZeros(coef, exp, ideal) ==
    LET limit == IF ideal - exp < 0 THEN 0
                 ELSE IF ideal - exp > Len(coef) - 1 THEN Len(coef) - 1
                 ELSE ideal - exp
        k == CHOOSE j \in 0..limit :
                 /\ \A i \in 1..j : coef[Len(coef) - i + 1] = 0
                 /\ (j = limit \/ coef[Len(coef) - j] # 0)
    IN  [coef |-> SubSeq(coef, 1, Len(coef) - k), exp |-> exp + k]

\* a division by zero: the DivisionByZero and InvalidOperation (0 / 0) signals
\* are both trapped by the default context and raise an exception
DivisionByZero == [signal |-> "DivisionByZero"]

Raised(r) == "signal" \in DOMAIN r

\* the quotient's coefficient when the division leaves a remainder: a last
\* digit 0 or 5 is made 1 or 6, so that the rounding sees the remainder
Sticky(q) == IF q[Len(q)] % 5 = 0 THEN Add(q, <<1>>) ELSE q

DecOfQuotient(sign, e) == Fix(Dec(sign, e.coef, e.exp))

\* the result of Decimal.__truediv__ from dm = divmod of the coefficients
\* shifted, at the exponent exp
DecQuotient(sign, dm, exp, ideal) ==
    IF dm.r # <<0>> THEN Fix(Dec(sign, Sticky(dm.q), exp))
    ELSE DecOfQuotient(sign, DropZeros(dm.q, exp, ideal))

\* the shift of Decimal.__truediv__: the quotient gets PREC + 1 digits
DivShift(x, y) == Len(y.coef) - Len(x.coef) + PREC + 1

\* divmod(op1.int * 10**shift, op2.int), or divmod(op1.int, op2.int * 10**-shift)
ShiftedDivMod(x, y, shift) ==
    DivMod(IF shift >= 0 THEN Shl(x.coef, shift) ELSE x.coef,
           IF shift >= 0 THEN y.coef ELSE Shl(y.coef, 0 - shift))

\* Decimal.__truediv__
DecDiv(x, y) ==
    IF DecIsZero(y) THEN DivisionByZero
    ELSE IF DecIsZero(x)
    THEN Fix(Dec(IF x.sign = y.sign THEN 0 ELSE 1, <<0>>, x.exp - y.exp))
    ELSE DecQuotient(IF x.sign = y.sign THEN 0 ELSE 1,
                     ShiftedDivMod(x, y, DivShift(x, y)),
                     x.exp - y.exp - DivShift(x, y), x.exp - y.exp)

\* A Python int: sign and magnitude
PyInt(neg, mag) == [neg |-> neg, mag |-> mag]

\* amount <= 0
NotPositive(i) == i.neg \/ i.mag = <<0>>

\* Decimal(str(i))
DecOfInt(i) == Dec(IF i.neg THEN 1 ELSE 0, i.mag, 0)

\* Decimal.__int__: truncation towards zero
Signed(sign, mag) == PyInt(sign = 1 /\ mag # <<0>>, mag)

DecToInt(x) ==
    Signed(x.sign, IF x.exp >= 0 THEN Shl(x.coef, x.exp) ELSE Shr(x.coef, 0 - x.exp))

\* Decimal._rescale(exp, ROUND_HALF_EVEN)
Rescale(x, exp) ==
    LET digits == Len(x.coef) + x.exp - exp
        y      == IF digits < 0 THEN Dec(x.sign, <<1>>, exp - 1) ELSE x
        keep   == IF digits < 0 THEN 0 ELSE digits
        kept   == IF keep = 0 THEN <<0>> ELSE SubSeq(y.coef, 1, keep)
    IN  IF DecIsZero(x) THEN Dec(x.sign, <<0>>, exp)
        ELSE IF x.exp >= exp THEN Dec(x.sign, Shl(x.coef, x.exp - exp), exp)
        ELSE IF RoundHalfEven(y.coef, keep) THEN Dec(y.sign, Add(kept, <<1>>), exp)
        ELSE Dec(y.sign, kept, exp)

(***************************************************************************)
(* token_config.py: the static registry.                                   *)
(***************************************************************************)
Symbols == {"USDC", "USDT", "DAI", "WETH", "WBTC"}

\* TOKENS[symbol].decimals
TOKENS == [s \in Symbols |->
             [symbol   |-> s,
              decimals |-> CASE s = "USDC" -> 6
                             [] s = "USDT" -> 6
                             [] s = "DAI"  -> 18
                             [] s = "WETH" -> 18
                             [] s = "WBTC" -> 8]]

(***************************************************************************)
(* AaveCalculator.                                                         *)
(***************************************************************************)
\* the exponent of RAY = Decimal('1e27')
RAY_EXP == 27

RAY == Dec(0, <<1>>, RAY_EXP)

Ok(v) == [kind |-> "ok", value |-> v]

Raise(kind, msg) == [kind |-> kind, msg |-> msg]

\* mutant of ValidateInputs: "< 0" for "<= 0", so that zero passes
ValidateInputsZeroPasses(amount, normalized_income) ==
    IF amount.neg
    THEN Raise("ValueError", "Amount must be a positive number")
    ELSE IF normalized_income.neg
    THEN Raise("ValueError", "Normalized income must be a positive number")
    ELSE [kind |-> "pass"]

\* AaveCalculator._validate_inputs: it passes or raises a ValueError
ValidateInputs(amount, normalized_income) ==
    IF NotPositive(amount)
    THEN Raise("ValueError", "Amount must be a positive number")
    ELSE IF NotPositive(normalized_income)
    THEN Raise("ValueError", "Normalized income must be a positive number")
    ELSE [kind |-> "pass"]

\* return int(result), or the exception of the try block rewrapped
Returned(r, msg) == IF Raised(r) THEN Raise("Exception", msg) ELSE Ok(DecToInt(r))

\* Decimal(f'1e{token_config.decimals}')
TokenDecimals(decimals) == Dec(0, <<1>>, decimals)

\* the body of the try block of calculate_atoken_for_token
ATokenResult(amount, normalized_income, decimals) ==
    DecDiv(DecMul(DecMul(DecOfInt(amount), RAY), RAY),
           DecMul(TokenDecimals(decimals), DecOfInt(normalized_income)))

\* AaveCalculator.calculate_atoken_for_token
calculate_atoken_for_token(amount, normalized_income, decimals) ==
    IF ValidateInputs(amount, normalized_income).kind # "pass"
    THEN ValidateInputs(amount, normalized_income)
    ELSE Returned(ATokenResult(amount, normalized_income, decimals),
                  "Failed to calculate aToken amount")

\* the body of the try block of calculate_token_for_atoken
TokenResult(atoken_amount, normalized_income, decimals) ==
    DecDiv(DecMul(DecMul(DecOfInt(atoken_amount), DecOfInt(normalized_income)),
                  TokenDecimals(decimals)),
           DecMul(RAY, RAY))

\* AaveCalculator.calculate_token_for_atoken
calculate_token_for_atoken(atoken_amount, normalized_income, decimals) ==
    IF ValidateInputs(atoken_amount, normalized_income).kind # "pass"
    THEN ValidateInputs(atoken_amount, normalized_income)
    ELSE Returned(TokenResult(atoken_amount, normalized_income, decimals),
                  "Failed to calculate token amount")

\* the number of fractional digits of the format specification ".6f"
FMT_PLACES == 6

\* the coefficient with leading zeros, so that a digit stands before the point
Pad(c) == IF Len(c) <= FMT_PLACES THEN Zeros(FMT_PLACES + 1 - Len(c)) \o c ELSE c

\* the rendered string "<int>.<frac>" as its two digit strings
Rendered(sign, p) ==
    [neg  |-> sign = 1,
     int  |-> SubSeq(p, 1, Len(p) - FMT_PLACES),
     frac |-> SubSeq(p, Len(p) - FMT_PLACES + 1, Len(p))]

\* Decimal.__format__ with ".6f"
FormatF(x) == Rendered(Rescale(x, 0 - FMT_PLACES).sign, Pad(Rescale(x, 0 - FMT_PLACES).coef))

\* format_amount
format_amount(amount, decimals) ==
    FormatF(DecDiv(DecOfInt(amount), Dec(0, Shl(<<1>>, decimals), 0)))

(***************************************************************************)
(* State.                                                                  *)
(***************************************************************************)
VARIABLES
    \* the calculator run of __main__: inputs, results, position
    amount, amount2, normalized_income, decimals,
    atoken_amount, atoken_amount2, token_received, token_redeemed,
    formatted, pc,
    \* AaveDataProvider: the registry (TOKENS), the cache (_normalized_incomes),
    \* the chain's current block, the last call and what it did, the number of
    \* calls made, and per symbol since its last invalidation: the chain
    \* queries made, the successful ones, the value fetched, and whether no
    \* lookup was made yet
    registry, cache, block, last, calls, queries, fetches, fetched, stale,
    \* _initialize_web3: its parameter, loop counter and position, the address
    \* being verified, the addresses verified in this attempt, the outcome of
    \* each attempt so far, and what it returned or raised
    max_retries, attempt, cpc, addr, verified, log, outcome

calcVars == <<amount, amount2, normalized_income, decimals, atoken_amount,
              atoken_amount2, token_received, token_redeemed, formatted, pc>>

provVars == <<registry, cache, block, last, calls, queries, fetches, fetched, stale>>

connVars == <<max_retries, attempt, cpc, addr, verified, log, outcome>>

vars == <<calcVars, provVars, connVars>>

\* a result not computed yet
None == [kind |-> "none"]

\* m * 10^e as a Python int
Num(m, e) == PyInt(FALSE, Shl(NatDigits(m), e))

\* the amounts tried: invalid ones, the amounts of __main__ (1000 USDC,
\* 1000 DAI, 1 WETH, 1 WBTC), the spec's 1.0 USDC, and amounts beyond the
\* 28 digits of the Decimal context
AmountInputs ==
    { PyInt(FALSE, <<0>>), PyInt(TRUE, <<1>>), Num(1, 0), Num(7, 0),
      Num(1, 6), Num(1, 8), Num(1, 9), Num(1, 18), Num(1, 21),
      Num(5, 27), PyInt(FALSE, Nines(30)), Num(1, 30), Num(123456789, 0) }

\* the normalized incomes tried: invalid ones, RAY, 1.05 RAY, 3 RAY, and
\* small positive integers
IncomeInputs ==
    { PyInt(FALSE, <<0>>), PyInt(TRUE, Shl(<<1>>, RAY_EXP)), Num(1, RAY_EXP),
      Num(105, RAY_EXP - 2), Num(3, RAY_EXP), Num(1, 0), Num(3, 0) }

\* the decimals tried: those of the registry, and 0
DecimalsInputs == {TOKENS[s].decimals : s \in Symbols} \cup {0}

Positive(S) == {i \in S : ~NotPositive(i)}

\* the parts of the state a run does not use
CalcIdle ==
    /\ amount = None
    /\ amount2 = None
    /\ normalized_income = None
    /\ decimals = 0
    /\ atoken_amount = None
    /\ atoken_amount2 = None
    /\ token_received = None
    /\ token_redeemed = None
    /\ formatted = None
    /\ pc = "idle"

ProvIdle ==
    /\ registry = TOKENS
    /\ cache = None
    /\ block = 0
    /\ last = None
    /\ calls = 0
    /\ queries = None
    /\ fetches = None
    /\ fetched = None
    /\ stale = None

ConnIdle ==
    /\ max_retries = 0
    /\ attempt = 0
    /\ cpc = "idle"
    /\ addr = 0
    /\ verified = {}
    /\ log = <<>>
    /\ outcome = None

(***************************************************************************)
(* The calculator: each conversion applied to inputs drawn from the sets   *)
(* above, in the order of __main__ (deposit, then withdraw the receipt).   *)
(***************************************************************************)
CalcInit ==
    /\ amount \in AmountInputs
    /\ amount2 = None
    /\ normalized_income \in IncomeInputs
    /\ decimals \in DecimalsInputs
    /\ atoken_amount = None
    /\ atoken_amount2 = None
    /\ token_received = None
    /\ token_redeemed = None
    /\ formatted = None
    /\ pc = "start"
    /\ ProvIdle
    /\ ConnIdle

\* atoken_amount = AaveCalculator.calculate_atoken_for_token(...)
Deposit ==
    /\ pc = "start"
    /\ atoken_amount' = calculate_atoken_for_token(amount, normalized_income, decimals)
    /\ pc' = "deposited"
    /\ UNCHANGED <<amount, amount2, normalized_income, decimals, atoken_amount2,
                   token_received, token_redeemed, formatted>>
    /\ UNCHANGED <<provVars, connVars>>

\* token_received = AaveCalculator.calculate_token_for_atoken(atoken_amount, ...)
Withdraw ==
    /\ pc = "deposited"
    /\ atoken_amount.kind = "ok"
    /\ token_received' = calculate_token_for_atoken(atoken_amount.value,
                                                    normalized_income, decimals)
    /\ pc' = "withdrawn"
    /\ UNCHANGED <<amount, amount2, normalized_income, decimals, atoken_amount,
                   atoken_amount2, token_redeemed, formatted>>
    /\ UNCHANGED <<provVars, connVars>>

\* calculate_token_for_atoken applied to the input amount as a receipt amount
Redeem ==
    /\ pc = "start"
    /\ token_redeemed' = calculate_token_for_atoken(amount, normalized_income, decimals)
    /\ pc' = "redeemed"
    /\ UNCHANGED <<amount, amount2, normalized_income, decimals, atoken_amount,
                   atoken_amount2, token_received, formatted>>
    /\ UNCHANGED <<provVars, connVars>>

CalcNext == Deposit \/ Withdraw \/ Redeem

Spec == CalcInit /\ [][CalcNext]_vars

(***************************************************************************)
(* Monotonicity: two deposits with the same income and decimals.           *)
(***************************************************************************)
MonoInit ==
    /\ amount \in Positive(AmountInputs)
    /\ amount2 \in Positive(AmountInputs)
    /\ normalized_income \in Positive(IncomeInputs)
    /\ decimals \in DecimalsInputs
    /\ atoken_amount = None
    /\ atoken_amount2 = None
    /\ token_received = None
    /\ token_redeemed = None
    /\ formatted = None
    /\ pc = "start"
    /\ ProvIdle
    /\ ConnIdle

\* a second calculate_atoken_for_token, for amount2
Deposit2 ==
    /\ pc = "deposited"
    /\ atoken_amount2' = calculate_atoken_for_token(amount2, normalized_income, decimals)
    /\ pc' = "compared"
    /\ UNCHANGED <<amount, amount2, normalized_income, decimals, atoken_amount,
                   token_received, token_redeemed, formatted>>
    /\ UNCHANGED <<provVars, connVars>>

MonoNext == Deposit \/ Deposit2

SpecMono == MonoInit /\ [][MonoNext]_vars

(***************************************************************************)
(* format_amount.                                                          *)
(***************************************************************************)
\* the largest decimals tried by the formatting runs
MaxDecimals == 18

\* the amounts formatted: ties and carries at the sixth place, the spec's
\* examples, and amounts up to and beyond 28 digits
FormatInputs ==
    { PyInt(FALSE, <<0>>), Num(1, 0), Num(5, 0), Num(15, 0), Num(25, 0),
      Num(1500000, 0), Num(1999999, 0), Num(199999999, 0), Num(123456789, 0),
      Num(1, 18), Num(1, 21), PyInt(FALSE, Nines(12)), PyInt(FALSE, Nines(PREC)),
      PyInt(FALSE, <<1,2,3,4,5,6,7,8,9,0,1, 0,0,0,0,0,0,5,0,0,0,0,0,0,0,0,0,0,1>>) }

FormatInit ==
    /\ amount \in FormatInputs
    /\ amount2 = None
    /\ normalized_income = None
    /\ decimals \in 0..MaxDecimals
    /\ atoken_amount = None
    /\ atoken_amount2 = None
    /\ token_received = None
    /\ token_redeemed = None
    /\ formatted = None
    /\ pc = "start"
    /\ ProvIdle
    /\ ConnIdle

\* format_amount(amount, token_config.decimals)
Format ==
    /\ pc = "start"
    /\ formatted' = format_amount(amount, decimals)
    /\ pc' = "formatted"
    /\ UNCHANGED <<amount, amount2, normalized_income, decimals, atoken_amount,
                   atoken_amount2, token_received, token_redeemed>>
    /\ UNCHANGED <<provVars, connVars>>

FormatNext == Format

SpecFormat == FormatInit /\ [][FormatNext]_vars

(***************************************************************************)
(* Exact integer arithmetic, the reference the claims compare with.        *)
(***************************************************************************)
\* floor(a * RAY^2 / (10^d * n))
ExactReceipt(a, n, d) == DivMod(Shl(a.mag, 2 * RAY_EXP), Shl(n.mag, d)).q

\* floor(r * n * 10^d / RAY^2)
ExactBase(r, n, d) == Shr(Shl(Mul(r.mag, n.mag), d), 2 * RAY_EXP)

\* floor(a * 10^6 / 10^d)
MicroFloor(a, d) == Shr(Shl(a.mag, FMT_PLACES), d)

\* a * 10^6 / 10^d rounded to the nearest integer, ties to even
MicroNearestEven(a, d) ==
    LET dm == DivMod(Shl(a.mag, FMT_PLACES), Shl(<<1>>, d))
        c  == Cmp(MulSmall(dm.r, 2), Shl(<<1>>, d))
    IN  IF c > 0 \/ (c = 0 /\ IsOdd(dm.q)) THEN Add(dm.q, <<1>>) ELSE dm.q

\* the number a rendered string shows, in units of 10^-6
Shown(f) == Strip(f.int \o f.frac)

(***************************************************************************)
(* Claims on the conversions.                                              *)
(***************************************************************************)
\* C1: the round trip never returns more than was deposited: whenever the
\* receipt amount of a deposit is valid and is withdrawn, the amount
\* received is at most the amount deposited.
RoundTripNeverExceeds ==
    (pc = "withdrawn" /\ token_received.kind = "ok")
        => Cmp(token_received.value.mag, amount.mag) <= 0

\* C2: calculate_atoken_for_token returns exactly
\* floor(amount * RAY^2 / (10^decimals * normalized_income)).
DepositIsExactFloor ==
    (pc = "deposited" /\ ~NotPositive(amount) /\ ~NotPositive(normalized_income))
        => /\ atoken_amount.kind = "ok"
           /\ ~atoken_amount.value.neg
           /\ atoken_amount.value.mag = ExactReceipt(amount, normalized_income, decimals)

\* C3: calculate_token_for_atoken returns exactly
\* floor(receipt * normalized_income * 10^decimals / RAY^2).
RedeemIsExactFloor ==
    (pc = "redeemed" /\ ~NotPositive(amount) /\ ~NotPositive(normalized_income))
        => /\ token_redeemed.kind = "ok"
           /\ ~token_redeemed.value.neg
           /\ token_redeemed.value.mag = ExactBase(amount, normalized_income, decimals)

\* what a conversion of amount a at income n must have answered when an
\* input is invalid
Rejected(a, n, r) ==
    /\ NotPositive(a) => r = Raise("ValueError", "Amount must be a positive number")
    /\ (~NotPositive(a) /\ NotPositive(n))
           => r = Raise("ValueError", "Normalized income must be a positive number")

\* C4: both conversions reject a zero or negative amount with the
\* invalid-amount error and otherwise a zero or negative normalized income
\* with the invalid-income error; the error reaches the caller as that
\* ValueError, never as a number and never rewrapped.
InvalidInputsRejected ==
    /\ pc \in {"deposited", "withdrawn"}
           => Rejected(amount, normalized_income, atoken_amount)
    /\ pc = "withdrawn"
           => Rejected(atoken_amount.value, normalized_income, token_received)
    /\ pc = "redeemed" => Rejected(amount, normalized_income, token_redeemed)

\* C4 witness: a deposit of 0 and a redemption at income 0 were rejected
InvalidInputsRejectedWitness ==
    \/ /\ pc = "deposited"
       /\ amount.mag = <<0>>
       /\ atoken_amount.kind = "ValueError"
    \/ /\ pc = "redeemed"
       /\ ~NotPositive(amount)
       /\ normalized_income.mag = <<0>>
       /\ token_redeemed.kind = "ValueError"

\* C5: at normalized income RAY a deposit returns the base amount unchanged
\* (10^18 at 18 decimals gives 10^18).
IdentityAtUnitIndex ==
    (pc = "deposited" /\ ~NotPositive(amount) /\ normalized_income = Num(1, RAY_EXP))
        => atoken_amount = Ok(amount)

\* C8: calculate_atoken_for_token is monotonically non-decreasing in the
\* amount: of two deposits at the same income and decimals, the smaller
\* amount does not receive more.
DepositMonotone ==
    (pc = "compared" /\ Cmp(amount.mag, amount2.mag) <= 0)
        => /\ atoken_amount.kind = "ok"
           /\ atoken_amount2.kind = "ok"
           /\ Cmp(atoken_amount.value.mag, atoken_amount2.value.mag) <= 0

\* C8 witness: two different amounts were deposited and the larger one
\* received strictly more
DepositMonotoneWitness ==
    /\ pc = "compared"
    /\ Cmp(amount.mag, amount2.mag) < 0
    /\ atoken_amount2.kind = "ok"
    /\ Cmp(atoken_amount.value.mag, atoken_amount2.value.mag) < 0

MaxCalls == 4

\* the blocks the chain advances during one run
MaxBlock == 2

\* a symbol that is not configured, the empty string, and an omitted argument
\* (symbol = None)
UnknownSymbol == "LINK"

EmptySymbol == ""

NoSymbol == "<None>"

GetArgs == Symbols \cup {UnknownSymbol, EmptySymbol}

RefreshArgs == Symbols \cup {UnknownSymbol, EmptySymbol, NoSymbol}

\* a cached or fetched integer
IntVal(k) == [kind |-> "int", value |-> k]

\* contract.functions.getNormalizedIncome().call(): the index of the asset as
\* of the current block (it accrues with every block)
ChainValue(symbol) == IntVal(block)

\* what a call did: its result, whether it queried the chain, whether it read
\* the cache, the cache entries it changed, and whether it was the first
\* lookup of its symbol since the symbol's last invalidation
Call(op, symbol, kind, value, queried, cacheRead, changed, first) ==
    [op |-> op, symbol |-> symbol, kind |-> kind, value |-> value,
     queried |-> queried, cacheRead |-> cacheRead, changed |-> changed,
     first |-> first]

ProvInit ==
    /\ registry = TOKENS
    /\ cache = [s \in DOMAIN TOKENS |-> None]
    /\ block = 0
    /\ last = Call("init", NoSymbol, "ok", None, FALSE, FALSE, {}, FALSE)
    /\ calls = 0
    /\ queries = [s \in Symbols |-> 0]
    /\ fetches = [s \in Symbols |-> 0]
    /\ fetched = [s \in Symbols |-> None]
    /\ stale = [s \in Symbols |-> TRUE]
    /\ CalcIdle
    /\ ConnIdle

\* mutant of NeedsFetch: "if not entry" for "if entry is None"
NeedsFetchFalsy(entry) == entry = None \/ entry = IntVal(0)

\* self._normalized_incomes[symbol] is None
NeedsFetch(entry) == entry = None

\* mutant of GetNormalizedIncome: the membership test is missing, and an
\* unknown symbol fails at the cache read with a KeyError
GetNormalizedIncomeUnchecked(symbol, reply) ==
    /\ calls < MaxCalls
    /\ calls' = calls + 1
    /\ IF symbol \notin DOMAIN cache
       THEN /\ last' = Call("get", symbol, "KeyError", None, FALSE, TRUE, {}, FALSE)
            /\ UNCHANGED <<cache, queries, fetches, fetched, stale>>
       ELSE IF NeedsFetch(cache[symbol]) /\ reply = "value"
       THEN /\ cache' = [cache EXCEPT ![symbol] = ChainValue(symbol)]
            /\ queries' = [queries EXCEPT ![symbol] = @ + 1]
            /\ fetches' = [fetches EXCEPT ![symbol] = @ + 1]
            /\ fetched' = [fetched EXCEPT ![symbol] = ChainValue(symbol)]
            /\ stale' = [stale EXCEPT ![symbol] = FALSE]
            /\ last' = Call("get", symbol, "ok", ChainValue(symbol), TRUE, TRUE,
                            {symbol}, stale[symbol])
       ELSE IF NeedsFetch(cache[symbol])
       THEN /\ queries' = [queries EXCEPT ![symbol] = @ + 1]
            /\ stale' = [stale EXCEPT ![symbol] = FALSE]
            /\ last' = Call("get", symbol, "ChainError", None, TRUE, TRUE, {},
                            stale[symbol])
            /\ UNCHANGED <<cache, fetches, fetched>>
       ELSE /\ stale' = [stale EXCEPT ![symbol] = FALSE]
            /\ last' = Call("get", symbol, "ok", cache[symbol], FALSE, TRUE, {},
                            stale[symbol])
            /\ UNCHANGED <<cache, queries, fetches, fetched>>
    /\ UNCHANGED <<registry, block>>
    /\ UNCHANGED <<calcVars, connVars>>

\* AaveDataProvider.get_normalized_income(symbol); reply is what the chain
\* call does if it is made: it returns the value or raises
GetNormalizedIncome(symbol, reply) ==
    /\ calls < MaxCalls
    /\ calls' = calls + 1
    /\ IF symbol \notin DOMAIN registry
       THEN /\ last' = Call("get", symbol, "ValueError", None, FALSE, FALSE, {}, FALSE)
            /\ UNCHANGED <<cache, queries, fetches, fetched, stale>>
       ELSE IF NeedsFetch(cache[symbol]) /\ reply = "value"
       THEN /\ cache' = [cache EXCEPT ![symbol] = ChainValue(symbol)]
            /\ queries' = [queries EXCEPT ![symbol] = @ + 1]
            /\ fetches' = [fetches EXCEPT ![symbol] = @ + 1]
            /\ fetched' = [fetched EXCEPT ![symbol] = ChainValue(symbol)]
            /\ stale' = [stale EXCEPT ![symbol] = FALSE]
            /\ last' = Call("get", symbol, "ok", ChainValue(symbol), TRUE, TRUE,
                            {symbol}, stale[symbol])
       ELSE IF NeedsFetch(cache[symbol])
       THEN /\ queries' = [queries EXCEPT ![symbol] = @ + 1]
            /\ stale' = [stale EXCEPT ![symbol] = FALSE]
            /\ last' = Call("get", symbol, "ChainError", None, TRUE, TRUE, {},
                            stale[symbol])
            /\ UNCHANGED <<cache, fetches, fetched>>
       ELSE /\ stale' = [stale EXCEPT ![symbol] = FALSE]
            /\ last' = Call("get", symbol, "ok", cache[symbol], FALSE, TRUE, {},
                            stale[symbol])
            /\ UNCHANGED <<cache, queries, fetches, fetched>>
    /\ UNCHANGED <<registry, block>>
    /\ UNCHANGED <<calcVars, connVars>>

\* the symbols refresh_data(symbol) invalidates: "if symbol:" is false for
\* None and for the empty string
Invalidated(symbol) ==
    IF symbol \notin {NoSymbol, EmptySymbol}
    THEN IF symbol \in DOMAIN cache THEN {symbol} ELSE {}
    ELSE DOMAIN registry

\* AaveDataProvider.refresh_data(symbol)
RefreshData(symbol) ==
    /\ calls < MaxCalls
    /\ calls' = calls + 1
    /\ cache' = [s \in DOMAIN cache |->
                    IF s \in Invalidated(symbol) THEN None ELSE cache[s]]
    /\ queries' = [s \in Symbols |-> IF s \in Invalidated(symbol) THEN 0 ELSE queries[s]]
    /\ fetches' = [s \in Symbols |-> IF s \in Invalidated(symbol) THEN 0 ELSE fetches[s]]
    /\ fetched' = [s \in Symbols |->
                      IF s \in Invalidated(symbol) THEN None ELSE fetched[s]]
    /\ stale' = [s \in Symbols |-> IF s \in Invalidated(symbol) THEN TRUE ELSE stale[s]]
    /\ last' = Call("refresh", symbol, "ok", None, FALSE, FALSE,
                    {s \in DOMAIN cache : cache'[s] # cache[s]}, FALSE)
    /\ UNCHANGED <<registry, block>>
    /\ UNCHANGED <<calcVars, connVars>>

\* token_config = TOKENS[symbol]
Lookup(symbol) ==
    /\ calls < MaxCalls
    /\ calls' = calls + 1
    /\ last' = IF symbol \in DOMAIN registry
               THEN Call("lookup", symbol, "ok", registry[symbol], FALSE, FALSE, {}, FALSE)
               ELSE Call("lookup", symbol, "KeyError", None, FALSE, FALSE, {}, FALSE)
    /\ UNCHANGED <<registry, cache, block, queries, fetches, fetched, stale>>
    /\ UNCHANGED <<calcVars, connVars>>

\* the chain advances by a block, and every index accrues
Mine ==
    /\ block < MaxBlock
    /\ block' = block + 1
    /\ UNCHANGED <<registry, cache, last, calls, queries, fetches, fetched, stale>>
    /\ UNCHANGED <<calcVars, connVars>>

ProvNext ==
    \/ \E symbol \in GetArgs, reply \in {"value", "error"} :
           GetNormalizedIncome(symbol, reply)
    \/ \E symbol \in RefreshArgs : RefreshData(symbol)
    \/ \E symbol \in GetArgs : Lookup(symbol)
    \/ Mine

SpecProvider == ProvInit /\ [][ProvNext]_vars

(***************************************************************************)
(* Claims on the provider.                                                 *)
(***************************************************************************)
\* C6: a symbol that is not configured is always refused: TOKENS[symbol]
\* raises and get_normalized_income fails with the unsupported-token error
\* before it reads the cache or calls the chain, and neither yields a value;
\* the registry and the cache's keys are those of the static table in every
\* state.
UnknownSymbolRefused ==
    /\ registry = TOKENS
    /\ DOMAIN cache = Symbols
    /\ (last.op = "get" /\ last.symbol \notin Symbols)
           => /\ last.kind = "ValueError"
              /\ last.value = None
              /\ ~last.queried
              /\ ~last.cacheRead
              /\ last.changed = {}
    /\ (last.op = "lookup" /\ last.symbol \notin Symbols)
           => /\ last.kind = "KeyError"
              /\ last.value = None

\* C6 witness: get_normalized_income of an unconfigured symbol was refused
\* while another symbol's value was cached
UnknownSymbolRefusedWitness ==
    /\ last.op = "get"
    /\ last.symbol = UnknownSymbol
    /\ last.kind = "ValueError"
    /\ \E s \in Symbols : cache[s] # None

\* what C9 says besides the number of chain queries: a lookup that returns,
\* returns the value fetched since the last invalidation; the first lookup
\* after an invalidation queries the chain; refresh_data(symbol) empties that
\* symbol's entry and no other; a failed query leaves the entry empty
CacheBehaviour ==
    /\ \A s \in Symbols : cache[s] = fetched[s]
    /\ (last.op = "get" /\ last.kind = "ok")
           => /\ last.value = fetched[last.symbol]
              /\ last.value # None
    /\ (last.op = "get" /\ last.symbol \in Symbols /\ last.first) => last.queried
    /\ (last.op = "refresh" /\ last.symbol \in Symbols)
           => /\ last.changed \subseteq {last.symbol}
              /\ cache[last.symbol] = None
    /\ (last.op = "get" /\ last.kind = "ChainError")
           => /\ cache[last.symbol] = None
              /\ last.changed = {}

\* C9 (as stated): between two invalidations of a symbol the chain is queried
\* at most once for it, and the cache behaves as described.
ChainQueriedAtMostOnce ==
    /\ \A s \in Symbols : queries[s] <= 1
    /\ CacheBehaviour

\* C9 (amended): between two invalidations of a symbol at most one chain
\* query for it succeeds (a failed query leaves the entry empty, so the next
\* lookup queries again), and the cache behaves as described.
ChainFetchedAtMostOnce ==
    /\ \A s \in Symbols : fetches[s] <= 1
    /\ CacheBehaviour

\* C9 witness: a lookup was served from the cache, without a chain query,
\* after the chain's value had changed
ChainFetchedAtMostOnceWitness ==
    /\ last.op = "get"
    /\ last.kind = "ok"
    /\ ~last.queried
    /\ last.value # ChainValue(last.symbol)

(***************************************************************************)
(* AaveDataProvider._initialize_web3.                                      *)
(***************************************************************************)
\* the largest max_retries tried (the default is 3)
MaxRetries == 3

\* the keys of TOKENS in their order
SymbolOrder == <<"USDC", "USDT", "DAI", "WETH", "WBTC">>

\* the names of self.addresses in their order: the lending pool, then each
\* token and its aToken
ADDRESSES ==
    <<"lending_pool">> \o
    [i \in 1..(2 * Len(SymbolOrder)) |->
        IF i % 2 = 1 THEN SymbolOrder[(i + 1) \div 2]
        ELSE "a" \o SymbolOrder[i \div 2]]

ConnInit ==
    /\ max_retries \in 0..MaxRetries
    /\ attempt = 0
    /\ cpc = "loop"
    /\ addr = 0
    /\ verified = {}
    /\ log = <<>>
    /\ outcome = None
    /\ CalcIdle
    /\ ProvIdle

\* the except clause: the last attempt raises ConnectionError, any other
\* attempt goes on to the next one
Handler(what) ==
    /\ log' = Append(log, what)
    /\ addr' = 0
    /\ IF attempt = max_retries - 1
       THEN /\ cpc' = "raised"
            /\ outcome' = Raise("ConnectionError",
                                "Failed to connect to Ethereum node after attempts")
            /\ UNCHANGED attempt
       ELSE /\ attempt' = attempt + 1
            /\ cpc' = "loop"
            /\ UNCHANGED outcome

\* one iteration up to the test of w3.is_connected(): Web3(...) or
\* is_connected() raises, or the node reports connected or not
Connect(reply) ==
    /\ cpc = "loop"
    /\ attempt < max_retries
    /\ verified' = {}
    /\ CASE reply = "connected" ->
                /\ cpc' = "verify"
                /\ addr' = 1
                /\ UNCHANGED <<attempt, log, outcome>>
         [] reply = "not_connected" ->
                /\ attempt' = attempt + 1
                /\ log' = Append(log, "not_connected")
                /\ UNCHANGED <<cpc, addr, outcome>>
         [] reply = "raises" -> Handler("raised")
    /\ UNCHANGED max_retries
    /\ UNCHANGED <<calcVars, provVars>>

\* mutant of VerifyCode: the return is inside the loop over the addresses
VerifyCodeReturnsEarly(reply) ==
    /\ cpc = "verify"
    /\ CASE reply = "code" ->
                /\ verified' = verified \cup {ADDRESSES[addr]}
                /\ log' = Append(log, "verified")
                /\ cpc' = "returned"
                /\ outcome' = Ok("w3")
                /\ UNCHANGED <<attempt, addr>>
         [] reply = "empty" -> Handler("no_code") /\ UNCHANGED verified
         [] reply = "raises" -> Handler("raised") /\ UNCHANGED verified
    /\ UNCHANGED max_retries
    /\ UNCHANGED <<calcVars, provVars>>

\* one w3.eth.get_code(address) of the verification loop: it returns code,
\* returns nothing (ValueError), or raises; after the last address, return w3
VerifyCode(reply) ==
    /\ cpc = "verify"
    /\ CASE reply = "code" ->
                /\ verified' = verified \cup {ADDRESSES[addr]}
                /\ IF addr = Len(ADDRESSES)
                   THEN /\ log' = Append(log, "verified")
                        /\ cpc' = "returned"
                        /\ outcome' = Ok("w3")
                        /\ UNCHANGED <<attempt, addr>>
                   ELSE /\ addr' = addr + 1
                        /\ UNCHANGED <<attempt, cpc, log, outcome>>
         [] reply = "empty" -> Handler("no_code") /\ UNCHANGED verified
         [] reply = "raises" -> Handler("raised") /\ UNCHANGED verified
    /\ UNCHANGED max_retries
    /\ UNCHANGED <<calcVars, provVars>>

\* the raise after the loop
LoopExit ==
    /\ cpc = "loop"
    /\ attempt >= max_retries
    /\ cpc' = "raised"
    /\ outcome' = Raise("ConnectionError", "Failed to connect to Ethereum node")
    /\ UNCHANGED <<max_retries, attempt, addr, verified, log>>
    /\ UNCHANGED <<calcVars, provVars>>

ConnNext ==
    \/ \E reply \in {"connected", "not_connected", "raises"} : Connect(reply)
    \/ \E reply \in {"code", "empty", "raises"} : VerifyCode(reply)
    \/ LoopExit

\* the function runs on until it returns or raises
SpecConnect == ConnInit /\ [][ConnNext]_vars /\ WF_vars(ConnNext)

ConnDone == cpc \in {"returned", "raised"}

\* the attempts begun so far
Attempts == Len(log) + (IF cpc = "verify" THEN 1 ELSE 0)

\* every configured address: the lending pool, each token, each aToken
Configured == {"lending_pool"} \cup Symbols \cup {"a" \o s : s \in Symbols}

ConnSafe ==
    /\ Attempts <= max_retries
    /\ cpc = "returned"
           => /\ outcome = Ok("w3")
              /\ log[Len(log)] = "verified"
              /\ verified = Configured
    /\ cpc = "raised"
           => /\ outcome.kind = "ConnectionError"
              /\ Attempts = max_retries
              /\ \A i \in 1..Len(log) : log[i] # "verified"
    /\ ~ConnDone => outcome = None

\* C10: _initialize_web3 makes at most max_retries attempts and always ends;
\* it returns a client only from an attempt in which the node was connected
\* and every configured address had code; otherwise it raises
\* ConnectionError, and only after max_retries attempts: a failure of an
\* earlier attempt is retried and not reported.
ConnectRetries == []ConnSafe /\ <>ConnDone

\* C10 witness: the client was returned by the third attempt, after one
\* attempt that was not connected and one that found no code
ConnectRetriesWitness ==
    /\ cpc = "returned"
    /\ max_retries = 3
    /\ log = <<"not_connected", "no_code", "verified">>

====
